---- MODULE Spec2Model ----
(***************************************************************************)
(* Model of the lineage viewport of src/frontend/src/App.js                *)
(* (component AlationStyleLineage): pan / zoom transform, drag controller, *)
(* expand / collapse state, deferred re-fit timers and the fit algorithm.  *)
(*                                                                         *)
(* Numbers that the program holds as JavaScript doubles are modelled as    *)
(* exact rationals <<numerator, denominator>> in lowest terms, so that the *)
(* arithmetic of the handlers is carried out as written (rounding of the   *)
(* doubles is not modelled).                                               *)
(***************************************************************************)
EXTENDS Integers, Sequences, FiniteSets, TLC

VARIABLES
    loading,          \* useState(true): the fetch has not settled yet
    lineageData,      \* useState({tables: [], connections: []})
    expandedTables,   \* useState([]): array of table ids
    selectedColumn,   \* useState('customer_id')
    transform,        \* useState({x: 0, y: 0, scale: 1})
    isDragging,       \* useState(false)
    dragStart,        \* useState({x: 0, y: 0}): press point, surface coordinates
    transformStart,   \* useState({x: 0, y: 0}): transform (x, y) at the press
    listeners,        \* number of document mousemove/mouseup listener pairs
    timers,           \* pending setTimeout callbacks, in scheduling order
    rect,             \* svgRef.current.getBoundingClientRect(): width, height
    primaryDown,      \* environment: the primary button is physically held
    lastOp,           \* history: the event handled last, with its inputs; for
                      \* a toggle also expandedTables before it (before) and,
                      \* when it repeats the toggle just before it (twice),
                      \* expandedTables before that one (prior)
    ops,              \* history: number of zoom, press and toggle events so far
    zooms             \* history: number of wheel and zoom-button events so far

vars == <<loading, lineageData, expandedTables, selectedColumn, transform,
          isDragging, dragStart, transformStart, listeners, timers, rect,
          primaryDown, lastOp, ops, zooms>>

----------------------------------------------------------------------------
(* Bounds of the model *)

MaxOps == 2
MaxZooms == 2

----------------------------------------------------------------------------
(* Exact rational arithmetic standing for the doubles *)

Abs(n) == IF n < 0 THEN -n ELSE n

RECURSIVE Gcd(_, _)
Gcd(a, b) == IF b = 0 THEN a ELSE Gcd(b, a % b)

Q(n, d) ==
    LET g == Gcd(Abs(n), Abs(d))
        s == IF d < 0 THEN -1 ELSE 1
    IN  <<(s * n) \div g, (s * d) \div g>>

QInt(n) == <<n, 1>>

QAdd(a, b) ==
    LET g == Gcd(a[2], b[2])
    IN  Q(a[1] * (b[2] \div g) + b[1] * (a[2] \div g), (a[2] \div g) * b[2])

QNeg(a) == <<-a[1], a[2]>>

QSub(a, b) == QAdd(a, QNeg(b))

QMul(a, b) ==
    LET p == Q(a[1], b[2])
        q == Q(b[1], a[2])
    IN  <<p[1] * q[1], p[2] * q[2]>>

QDiv(a, b) == QMul(a, Q(b[2], b[1]))

QLe(a, b) == a[1] * b[2] <= b[1] * a[2]

QLt(a, b) == a[1] * b[2] < b[1] * a[2]

MathMin(a, b) == IF QLe(a, b) THEN a ELSE b

MathMax(a, b) == IF QLe(a, b) THEN b ELSE a

----------------------------------------------------------------------------
(* Program constants *)

NodeWidth == 240
CollapsedHeight == 80
MinExpandedHeight == 120
HeaderHeight == 60
RowHeight == 20
FitPadding == 60
LoadFitDelay == 500
ToggleFitDelay == 50

MinScale == Q(1, 10)
MaxScale == QInt(3)
ZoomStep == Q(13, 10)
MinFitScale == Q(15, 100)
MaxFitScale == Q(9, 10)

----------------------------------------------------------------------------
(* Inputs: lineage snapshots, surface sizes, pointer positions, wheel deltas *)

NoPosition == <<>>

Table1 == [id |-> "t1", position |-> <<0, 0>>, columns |-> <<"col_a", "col_b">>]
Table2 == [id |-> "t2", position |-> <<1120, 0>>,
           columns |-> <<"col_a", "col_c", "col_d", "col_e">>]
TableFar == [id |-> "t2", position |-> <<6560, 0>>, columns |-> <<"col_a">>]
\* a stub of a table: no position and no columns
TableUnplaced == [id |-> "t3", position |-> NoPosition, columns |-> <<>>]

Conn12 == [from |-> [table |-> "t1", column |-> "col_a"],
           to |-> [table |-> "t2", column |-> "col_a"]]

DataWide == [tables |-> <<Table1, Table2>>, connections |-> <<Conn12>>]
DataFar == [tables |-> <<TableUnplaced, Table1, TableFar>>,
            connections |-> <<Conn12>>]
DataSingle == [tables |-> <<Table1>>, connections |-> <<>>]
DataEmpty == [tables |-> <<>>, connections |-> <<>>]

\* snapshots for the rendered view: stale edges (from.table or to.table
\* matches no table), an edge that ends at a table without a position, and a snapshot in
\* which no table has a position
ConnStale == [from |-> [table |-> "missing", column |-> "col_b"],
              to |-> [table |-> "t1", column |-> "col_a"]]
ConnBC == [from |-> [table |-> "t1", column |-> "col_b"],
           to |-> [table |-> "t2", column |-> "col_c"]]
ConnUnplaced == [from |-> [table |-> "t1", column |-> "col_b"],
                 to |-> [table |-> "t3", column |-> "col_b"]]

ConnStaleTo == [from |-> [table |-> "t2", column |-> "col_c"],
                to |-> [table |-> "missing", column |-> "col_c"]]

DataStale == [tables |-> <<Table1, Table2>>,
              connections |-> <<ConnStale, Conn12, ConnStaleTo, ConnBC>>]
DataUnplacedEnd == [tables |-> <<Table1, TableUnplaced>>,
                    connections |-> <<ConnUnplaced>>]
DataUnplaced == [tables |-> <<TableUnplaced>>, connections |-> <<>>]

\* a snapshot whose only edge is stale: its from.table matches no table
DataDangling == [tables |-> <<Table1, Table2>>, connections |-> <<ConnStale>>]

Datasets == {DataWide, DataFar, DataSingle, DataEmpty, DataUnplacedEnd}

\* a chain of three tables whose horizontal gaps are 160 and 401
TableNear == [id |-> "t4", position |-> <<400, 200>>, columns |-> <<"col_a">>]
TableMid == [id |-> "t5", position |-> <<1041, 100>>, columns |-> <<"col_a">>]
Conn14 == [from |-> [table |-> "t1", column |-> "col_a"],
           to |-> [table |-> "t4", column |-> "col_a"]]
Conn45 == [from |-> [table |-> "t4", column |-> "col_a"],
           to |-> [table |-> "t5", column |-> "col_a"]]

DataChain == [tables |-> <<Table1, TableNear, TableMid>>,
              connections |-> <<Conn14, Conn45>>]

ViewDatasets == {DataWide, DataFar, DataStale, DataUnplacedEnd, DataUnplaced,
                 DataEmpty, DataChain, DataDangling}

\* surface sizes at fit time: laid out, narrower than twice the fit margin,
\* and with one side or the other still zero
ViewViewports == {[width |-> 800, height |-> 600],
                  [width |-> 100, height |-> 400],
                  [width |-> 0, height |-> 600],
                  [width |-> 800, height |-> 0]}

Viewports == {[width |-> 800, height |-> 600], [width |-> 0, height |-> 0]}

Points == {<<50, 40>>, <<900, 700>>}

Buttons == {0, 2}

WheelDeltas == {-2000, -1000, 3000}

\* Math.exp(-deltaY / 1000), tabulated to two significant digits for the
\* deltas above: e^2 = 7.4, e^1 = 2.7, e^-3 = 0.050
MathExp(deltaY) ==
    CASE deltaY = -2000 -> Q(74, 10)
      [] deltaY = -1000 -> Q(27, 10)
      [] deltaY = 3000 -> Q(50, 1000)
      [] OTHER -> QInt(1)

\* the pointer is over the svg surface (event coordinates are relative to rect)
Inside(p, r) == 0 <= p[1] /\ p[1] < r.width /\ 0 <= p[2] /\ p[2] < r.height

----------------------------------------------------------------------------
(* Pure parts of the handlers *)

Range(arr) == {arr[i] : i \in 1..Len(arr)}

\* Array.prototype.includes
Includes(arr, v) == \E i \in 1..Len(arr) : arr[i] = v

\* prev.filter(id => id !== v)
RECURSIVE FilterOut(_, _)
FilterOut(arr, v) ==
    IF Len(arr) = 0 THEN <<>>
    ELSE IF Head(arr) = v THEN FilterOut(Tail(arr), v)
    ELSE <<Head(arr)>> \o FilterOut(Tail(arr), v)

IntMax(a, b) == IF a >= b THEN a ELSE b

IntMin(a, b) == IF a <= b THEN a ELSE b

\* height of a table's box under the array of expanded ids
TableHeight(table, expanded) ==
    IF Includes(expanded, table.id)
    THEN IntMax(MinExpandedHeight, Len(table.columns) * RowHeight + HeaderHeight)
    ELSE CollapsedHeight

\* the forEach of fitToView: inf stands for the untouched Infinity accumulators
Infinite == [inf |-> TRUE, minX |-> 0, minY |-> 0, maxX |-> 0, maxY |-> 0]

RECURSIVE NodeExtents(_, _, _, _)
NodeExtents(tables, expanded, i, acc) ==
    IF i > Len(tables) THEN acc
    ELSE LET table == tables[i]
         IN  IF table.position = NoPosition
             THEN NodeExtents(tables, expanded, i + 1, acc)
             ELSE LET x == table.position[1]
                      y == table.position[2]
                      width == NodeWidth
                      height == TableHeight(table, expanded)
                      next == IF acc.inf
                              THEN [inf |-> FALSE, minX |-> x, minY |-> y,
                                    maxX |-> x + width, maxY |-> y + height]
                              ELSE [inf |-> FALSE,
                                    minX |-> IntMin(acc.minX, x),
                                    minY |-> IntMin(acc.minY, y),
                                    maxX |-> IntMax(acc.maxX, x + width),
                                    maxY |-> IntMax(acc.maxY, y + height)]
                  IN  NodeExtents(tables, expanded, i + 1, next)

\* variant of FitRatio that subtracts the padding once instead of twice
FitRatioOnePadding(e, r) ==
    MathMin(Q(r.width - FitPadding, e.maxX - e.minX),
            Q(r.height - FitPadding, e.maxY - e.minY))

\* the unclamped scale of fitToView for extents e on surface r
FitRatio(e, r) ==
    MathMin(Q(r.width - FitPadding * 2, e.maxX - e.minX),
            Q(r.height - FitPadding * 2, e.maxY - e.minY))

\* variant of FitTransform whose scale has the upper clamp only
FitTransformNoFloor(e, r) ==
    LET optimalScale == MathMin(FitRatio(e, r), MaxFitScale)
        x == QSub(QDiv(QSub(QInt(r.width),
                            QMul(QInt(e.maxX - e.minX), optimalScale)), QInt(2)),
                  QMul(QInt(e.minX), optimalScale))
        y == QSub(QDiv(QSub(QInt(r.height),
                            QMul(QInt(e.maxY - e.minY), optimalScale)), QInt(2)),
                  QMul(QInt(e.minY), optimalScale))
    IN  [x |-> MathMax(x, QSub(QInt(FitPadding), QMul(QInt(e.minX), optimalScale))),
         y |-> MathMax(y, QSub(QInt(FitPadding), QMul(QInt(e.minY), optimalScale))),
         scale |-> optimalScale]

\* variant of FitTransform that centres without the floor of the last step
FitTransformCentredOnly(e, r) ==
    LET optimalScale == MathMax(MinFitScale, MathMin(FitRatio(e, r), MaxFitScale))
    IN  [x |-> QSub(QDiv(QSub(QInt(r.width),
                              QMul(QInt(e.maxX - e.minX), optimalScale)), QInt(2)),
                    QMul(QInt(e.minX), optimalScale)),
         y |-> QSub(QDiv(QSub(QInt(r.height),
                              QMul(QInt(e.maxY - e.minY), optimalScale)), QInt(2)),
                    QMul(QInt(e.minY), optimalScale)),
         scale |-> optimalScale]

\* the transform fitToView sets for extents e on surface r
FitTransform(e, r) ==
    LET contentWidth == e.maxX - e.minX
        contentHeight == e.maxY - e.minY
        optimalScale == MathMax(MinFitScale, MathMin(FitRatio(e, r), MaxFitScale))
        scaledContentWidth == QMul(QInt(contentWidth), optimalScale)
        scaledContentHeight == QMul(QInt(contentHeight), optimalScale)
        x == QSub(QDiv(QSub(QInt(r.width), scaledContentWidth), QInt(2)),
                  QMul(QInt(e.minX), optimalScale))
        y == QSub(QDiv(QSub(QInt(r.height), scaledContentHeight), QInt(2)),
                  QMul(QInt(e.minY), optimalScale))
        finalX == MathMax(x, QSub(QInt(FitPadding), QMul(QInt(e.minX), optimalScale)))
        finalY == MathMax(y, QSub(QInt(FitPadding), QMul(QInt(e.minY), optimalScale)))
    IN  [x |-> finalX, y |-> finalY, scale |-> optimalScale]

\* variant of fitToView that adds the fitted offset to the current one
fitToViewAccumulating(tr, tables, expanded, r, svg) ==
    IF Len(tables) = 0 \/ ~svg THEN tr
    ELSE IF r.width = 0 \/ r.height = 0 THEN tr
    ELSE LET e == NodeExtents(tables, expanded, 1, Infinite)
         IN  IF e.inf THEN tr
             ELSE LET f == FitTransform(e, r)
                  IN  [f EXCEPT !.x = QAdd(tr.x, f.x), !.y = QAdd(tr.y, f.y)]

\* variant of fitToView that returns early only when both sides are zero
fitToViewBothZero(tr, tables, expanded, r, svg) ==
    IF Len(tables) = 0 \/ ~svg THEN tr
    ELSE IF r.width = 0 /\ r.height = 0 THEN tr
    ELSE LET e == NodeExtents(tables, expanded, 1, Infinite)
         IN  IF e.inf THEN tr ELSE FitTransform(e, r)

\* fitToView(tables) evaluated in a render whose expandedTables is `expanded`;
\* svg is svgRef.current being set; the result is the transform afterwards
fitToView(tr, tables, expanded, r, svg) ==
    IF Len(tables) = 0 \/ ~svg THEN tr
    ELSE IF r.width = 0 \/ r.height = 0 THEN tr
    ELSE LET e == NodeExtents(tables, expanded, 1, Infinite)
         IN  IF e.inf THEN tr ELSE FitTransform(e, r)

\* onClick={fitToView}: the click event arrives as `tables`; it is truthy and
\* has no length, so the guards pass and tables.forEach raises a TypeError
\* before setTransform is reached
fitToViewOnClick(tr, r, svg) == tr

\* whether that call raises: the size check returns first on a surface
\* without a size
fitToViewOnClickThrows(r, svg) == svg /\ r.width # 0 /\ r.height # 0

\* zoom about the surface point (px, py) to newScale
ZoomAbout(tr, px, py, newScale) ==
    LET scaleRatio == QDiv(newScale, tr.scale)
        ratio1 == QSub(scaleRatio, QInt(1))
    IN  [x |-> QSub(tr.x, QMul(QSub(px, tr.x), ratio1)),
         y |-> QSub(tr.y, QMul(QSub(py, tr.y), ratio1)),
         scale |-> newScale]

\* variant of handleWheel whose ceiling is applied to the factor, not to the
\* product
handleWheelClampedFactor(tr, mouse, deltaY) ==
    LET scaleFactor == MathMin(MaxScale, MathExp(deltaY))
        newScale == MathMax(MinScale, QMul(tr.scale, scaleFactor))
    IN  ZoomAbout(tr, QInt(mouse[1]), QInt(mouse[2]), newScale)

\* variant of handleWheel without the lower clamp
handleWheelNoFloor(tr, mouse, deltaY) ==
    LET scaleFactor == MathExp(deltaY)
        newScale == MathMin(MaxScale, QMul(tr.scale, scaleFactor))
    IN  ZoomAbout(tr, QInt(mouse[1]), QInt(mouse[2]), newScale)

\* variant of handleWheel that translates by the unclamped factor
handleWheelFactorRatio(tr, mouse, deltaY) ==
    LET scaleFactor == MathExp(deltaY)
        newScale == MathMax(MinScale, MathMin(MaxScale, QMul(tr.scale, scaleFactor)))
        moved == ZoomAbout(tr, QInt(mouse[1]), QInt(mouse[2]),
                           QMul(tr.scale, scaleFactor))
    IN  [moved EXCEPT !.scale = newScale]

handleWheel(tr, mouse, deltaY) ==
    LET scaleFactor == MathExp(deltaY)
        newScale == MathMax(MinScale, MathMin(MaxScale, QMul(tr.scale, scaleFactor)))
    IN  ZoomAbout(tr, QInt(mouse[1]), QInt(mouse[2]), newScale)

\* variant of zoomIn anchored at the surface origin
zoomInAboutOrigin(tr, r, svg) ==
    LET newScale == MathMin(MaxScale, QMul(tr.scale, ZoomStep))
    IN  IF svg THEN ZoomAbout(tr, QInt(0), QInt(0), newScale) ELSE tr

\* zoomIn: svg is svgRef.current being set (rect is undefined without it)
zoomIn(tr, r, svg) ==
    LET newScale == MathMin(MaxScale, QMul(tr.scale, ZoomStep))
    IN  IF svg THEN ZoomAbout(tr, Q(r.width, 2), Q(r.height, 2), newScale)
        ELSE tr

zoomOut(tr, r, svg) ==
    LET newScale == MathMax(MinScale, QDiv(tr.scale, ZoomStep))
    IN  IF svg THEN ZoomAbout(tr, Q(r.width, 2), Q(r.height, 2), newScale)
        ELSE tr

\* variant of resetView that returns to the origin at the current scale
resetViewKeepScale == [x |-> QInt(0), y |-> QInt(0), scale |-> transform.scale]

resetView == [x |-> QInt(0), y |-> QInt(0), scale |-> QInt(1)]

\* variant of handleMouseMove that adds the pointer delta to the current (x, y)
handleMouseMoveFromCurrent(tr, dragging, start, trStart, p) ==
    IF dragging
    THEN [tr EXCEPT !.x = QAdd(tr.x, QInt(p[1] - start[1])),
                    !.y = QAdd(tr.y, QInt(p[2] - start[2]))]
    ELSE tr

\* handleMouseMove: the transform after a pointer move to p
handleMouseMove(tr, dragging, start, trStart, p) ==
    IF dragging
    THEN [tr EXCEPT !.x = QAdd(trStart.x, QInt(p[1] - start[1])),
                    !.y = QAdd(trStart.y, QInt(p[2] - start[2]))]
    ELSE tr

\* handleMouseDown: the drag state after a press of `button` at p
handleMouseDown(tr, drag, p, button) ==
    IF button = 0
    THEN [isDragging |-> TRUE, dragStart |-> p,
          transformStart |-> [x |-> tr.x, y |-> tr.y]]
    ELSE drag

\* variant of GlobalMouseEffect whose cleanup removes nothing once a pair
\* has been added
GlobalMouseEffectNoCleanup(dragging) == 1

\* the effect on [isDragging, ...]: its cleanup removes the previous pair of
\* document listeners and it adds a new pair only while dragging; it runs
\* with the render that follows the event, before the next event is handled
GlobalMouseEffect(dragging) == IF dragging THEN 1 ELSE 0

\* variant of Delivered for listeners attached to the svg instead
DeliveredOnSurface(n, p, r) == n > 0 /\ Inside(p, r)

\* document-level listeners see the event wherever the pointer is
Delivered(n, p, r) == n > 0

\* variant of toggleTable's updater that expands to the one table alone
ToggleExpandedSingle(prev, tableId) ==
    IF Includes(prev, tableId) THEN FilterOut(prev, tableId)
    ELSE <<tableId>>

\* variant of DefaultSelectedColumn that takes the last column
DefaultSelectedColumnLast(tables, selected) ==
    IF Len(tables[1].columns) > 0
    THEN tables[1].columns[Len(tables[1].columns)]
    ELSE selected

\* the selection fetchData makes for a non-empty tables array: the first
\* column of the first table if it has one, otherwise the selection stays
DefaultSelectedColumn(tables, selected) ==
    IF Len(tables[1].columns) > 0 THEN tables[1].columns[1] ELSE selected

\* toggleTable's updater
ToggleExpanded(prev, tableId) ==
    IF Includes(prev, tableId) THEN FilterOut(prev, tableId)
    ELSE Append(prev, tableId)

\* setTimeout: a callback fires once every earlier callback that is due no
\* later has fired
Due(ts, i) == \A j \in 1..(i - 1) : ts[j].delay > ts[i].delay

RemoveAt(ts, i) == SubSeq(ts, 1, i - 1) \o SubSeq(ts, i + 1, Len(ts))

----------------------------------------------------------------------------
(* getContentBounds and the rendered view *)

BoundsPadding == 100

\* the early return of getContentBounds for a missing or empty array
DefaultBounds ==
    [inf |-> FALSE, width |-> 800, height |-> 600,
     minX |-> 0, minY |-> 0, maxX |-> 800, maxY |-> 600]

\* variant of BoundsFold that takes every table at its collapsed height
RECURSIVE BoundsFoldCollapsed(_, _, _, _)
BoundsFoldCollapsed(tables, expanded, i, acc) ==
    IF i > Len(tables) THEN acc
    ELSE IF tables[i].position = NoPosition
    THEN BoundsFoldCollapsed(tables, expanded, i + 1, acc)
    ELSE LET x == tables[i].position[1]
             y == tables[i].position[2]
             right == x + NodeWidth
             bottom == y + CollapsedHeight
         IN  BoundsFoldCollapsed(tables, expanded, i + 1,
                 [inf |-> FALSE,
                  minX |-> IF acc.inf THEN x ELSE IntMin(acc.minX, x),
                  minY |-> IF acc.inf THEN y ELSE IntMin(acc.minY, y),
                  maxX |-> IF acc.inf THEN right ELSE IntMax(acc.maxX, right),
                  maxY |-> IF acc.inf THEN bottom ELSE IntMax(acc.maxY, bottom)])

\* the forEach of getContentBounds, its own copy of the loop of fitToView
RECURSIVE BoundsFold(_, _, _, _)
BoundsFold(tables, expanded, i, acc) ==
    IF i > Len(tables) THEN acc
    ELSE IF tables[i].position = NoPosition
    THEN BoundsFold(tables, expanded, i + 1, acc)
    ELSE LET x == tables[i].position[1]
             y == tables[i].position[2]
             right == x + NodeWidth
             bottom == y + TableHeight(tables[i], expanded)
         IN  BoundsFold(tables, expanded, i + 1,
                 [inf |-> FALSE,
                  minX |-> IF acc.inf THEN x ELSE IntMin(acc.minX, x),
                  minY |-> IF acc.inf THEN y ELSE IntMin(acc.minY, y),
                  maxX |-> IF acc.inf THEN right ELSE IntMax(acc.maxX, right),
                  maxY |-> IF acc.inf THEN bottom ELSE IntMax(acc.maxY, bottom)])

\* variant of getContentBounds whose width and height add the padding once
getContentBoundsPadOnce(tables, expanded) ==
    IF Len(tables) = 0 THEN DefaultBounds
    ELSE LET b == BoundsFold(tables, expanded, 1, Infinite)
             padding == BoundsPadding
         IN  IF b.inf
             THEN [inf |-> TRUE, width |-> -1, height |-> -1,
                   minX |-> 1, minY |-> 1, maxX |-> -1, maxY |-> -1]
             ELSE [inf |-> FALSE,
                   width |-> b.maxX - b.minX + padding,
                   height |-> b.maxY - b.minY + padding,
                   minX |-> b.minX - padding, minY |-> b.minY - padding,
                   maxX |-> b.maxX + padding, maxY |-> b.maxY + padding]

\* getContentBounds(tables) evaluated in a render whose expandedTables is
\* `expanded`. When the loop touched no table the accumulators are still
\* Infinity / -Infinity and so is every field of the result: inf is TRUE and
\* each field holds the sign of its infinity (width = -Infinity - Infinity
\* + 200 = -Infinity)
getContentBounds(tables, expanded) ==
    IF Len(tables) = 0 THEN DefaultBounds
    ELSE LET b == BoundsFold(tables, expanded, 1, Infinite)
             padding == BoundsPadding
         IN  IF b.inf
             THEN [inf |-> TRUE, width |-> -1, height |-> -1,
                   minX |-> 1, minY |-> 1, maxX |-> -1, maxY |-> -1]
             ELSE [inf |-> FALSE,
                   width |-> b.maxX - b.minX + (padding * 2),
                   height |-> b.maxY - b.minY + (padding * 2),
                   minX |-> b.minX - padding, minY |-> b.minY - padding,
                   maxX |-> b.maxX + padding, maxY |-> b.maxY + padding]

\* variant of isColumnHighlighted that looks at the from end only
isColumnHighlightedFromOnly(connections, selected, tableId, column) ==
    /\ \E i \in 1..Len(connections) :
           connections[i].from.table = tableId /\ connections[i].from.column = column
    /\ column = selected

\* isColumnHighlighted(tableId, column) in a render whose selectedColumn is
\* `selected`
isColumnHighlighted(connections, selected, tableId, column) ==
    /\ \E i \in 1..Len(connections) :
           \/ (connections[i].from.table = tableId /\ connections[i].from.column = column)
           \/ (connections[i].to.table = tableId /\ connections[i].to.column = column)
    /\ column = selected

\* tables.find(t => t.id === id): the index of the first match, 0 for undefined
RECURSIVE Find(_, _, _)
Find(tables, id, i) ==
    IF i > Len(tables) THEN 0
    ELSE IF tables[i].id = id THEN i
    ELSE Find(tables, id, i + 1)

\* getConnectionPath raises a TypeError when it reads .x of a missing position
getConnectionPathThrows(fromTable, toTable) ==
    fromTable.position = NoPosition \/ toTable.position = NoPosition

\* variant of getConnectionPath whose control offset has no floor
getConnectionPathNoFloor(fromTable, toTable) ==
    LET fromX == fromTable.position[1] + 240
        fromY == fromTable.position[2] + 40
        toX == toTable.position[1]
        toY == toTable.position[2] + 40
        controlOffset == MathMin(Q(Abs(toX - fromX) * 4, 10), QInt(200))
    IN  <<QInt(fromX), QInt(fromY),
          QAdd(QInt(fromX), controlOffset), QInt(fromY),
          QSub(QInt(toX), controlOffset), QInt(toY),
          QInt(toX), QInt(toY)>>

\* getConnectionPath: the numbers of the path string
\* M fromX fromY C controlX1 fromY controlX2 toY toX toY
getConnectionPath(fromTable, toTable) ==
    LET fromX == fromTable.position[1] + 240
        fromY == fromTable.position[2] + 40
        toX == toTable.position[1]
        toY == toTable.position[2] + 40
        distance == Abs(toX - fromX)
        controlOffset == MathMin(MathMax(Q(distance * 4, 10), QInt(80)),
                                 QInt(200))
    IN  <<QInt(fromX), QInt(fromY),
          QAdd(QInt(fromX), controlOffset), QInt(fromY),
          QSub(QInt(toX), controlOffset), QInt(toY),
          QInt(toX), QInt(toY)>>

\* variant of RenderConnection that routes an edge from the first table when
\* its from.table matches none
RenderConnectionDefaultFrom(conn, tables, selected) ==
    LET f == IF Find(tables, conn.from.table, 1) = 0 THEN 1
             ELSE Find(tables, conn.from.table, 1)
        t == Find(tables, conn.to.table, 1)
    IN  IF t = 0 THEN [kind |-> "null"]
        ELSE IF getConnectionPathThrows(tables[f], tables[t])
        THEN [kind |-> "TypeError"]
        ELSE [kind |-> "g", d |-> getConnectionPath(tables[f], tables[t]),
              isHighlighted |-> conn.from.column = selected
                                \/ conn.to.column = selected]

\* variant of RenderConnection that highlights by the from column only
RenderConnectionFromColumn(conn, tables, selected) ==
    LET f == Find(tables, conn.from.table, 1)
        t == Find(tables, conn.to.table, 1)
    IN  IF f = 0 \/ t = 0 THEN [kind |-> "null"]
        ELSE IF getConnectionPathThrows(tables[f], tables[t])
        THEN [kind |-> "TypeError"]
        ELSE [kind |-> "g", d |-> getConnectionPath(tables[f], tables[t]),
              isHighlighted |-> conn.from.column = selected]

\* the callback of lineageData.connections.map: null for an edge with an
\* unknown end, otherwise a <g> with the path, drawn highlighted (and with the
\* midpoint marker) when isHighlighted
RenderConnection(conn, tables, selected) ==
    LET f == Find(tables, conn.from.table, 1)
        t == Find(tables, conn.to.table, 1)
        isHighlighted == conn.from.column = selected \/ conn.to.column = selected
    IN  IF f = 0 \/ t = 0 THEN [kind |-> "null"]
        ELSE IF getConnectionPathThrows(tables[f], tables[t])
        THEN [kind |-> "TypeError"]
        ELSE [kind |-> "g", d |-> getConnectionPath(tables[f], tables[t]),
              isHighlighted |-> isHighlighted]

\* the connections layer of one render
RenderConnections(data, selected) ==
    [i \in 1..Len(data.connections) |->
        RenderConnection(data.connections[i], data.tables, selected)]

\* the callback of lineageData.tables.map: null for a table without a
\* position, otherwise its box and, when expanded, its column rows
RenderTable(table, data, expanded, selected) ==
    IF table.position = NoPosition THEN [kind |-> "null"]
    ELSE LET isExpanded == Includes(expanded, table.id)
         IN  [kind |-> "g", id |-> table.id,
              x |-> table.position[1], y |-> table.position[2],
              height |-> TableHeight(table, expanded),
              rows |-> IF isExpanded
                       THEN [j \in 1..Len(table.columns) |->
                                [column |-> table.columns[j],
                                 isHighlighted |->
                                     isColumnHighlighted(data.connections, selected,
                                                         table.id, table.columns[j])]]
                       ELSE <<>>]

\* the tables layer of one render
RenderTables(data, expanded, selected) ==
    [i \in 1..Len(data.tables) |->
        RenderTable(data.tables[i], data, expanded, selected)]

\* an exception raised inside a map callback propagates out of the render:
\* some edge has both ends found and getConnectionPath raises for them
RenderThrows(data) ==
    \E i \in 1..Len(data.connections) :
        LET f == Find(data.tables, data.connections[i].from.table, 1)
            t == Find(data.tables, data.connections[i].to.table, 1)
        IN  f # 0 /\ t # 0 /\ getConnectionPathThrows(data.tables[f], data.tables[t])

----------------------------------------------------------------------------
(* The component as a state machine *)

\* the svg is rendered (svgRef.current is set) once the load has settled with
\* at least one table; before that a spinner or the empty page is shown. A
\* render that throws has no error boundary above it and unmounts the tree
SvgMounted ==
    ~loading /\ Len(lineageData.tables) > 0 /\ ~RenderThrows(lineageData)

TableIds(tables) == [i \in 1..Len(tables) |-> tables[i].id]

Init ==
    /\ loading = TRUE
    /\ lineageData = [tables |-> <<>>, connections |-> <<>>]
    /\ expandedTables = <<>>
    /\ selectedColumn = "customer_id"
    /\ transform = [x |-> QInt(0), y |-> QInt(0), scale |-> QInt(1)]
    /\ isDragging = FALSE
    /\ dragStart = <<0, 0>>
    /\ transformStart = [x |-> QInt(0), y |-> QInt(0)]
    /\ listeners = 0
    /\ timers = <<>>
    /\ rect \in Viewports
    /\ primaryDown = FALSE
    /\ lastOp = [op |-> "init"]
    /\ ops = 0
    /\ zooms = 0

\* fetchData, response.ok: the closure of the mount effect belongs to the
\* first render, whose expandedTables is the one still current here
FetchSuccess(data) ==
    /\ loading
    /\ lineageData' = data
    /\ IF Len(data.tables) > 0
       THEN /\ expandedTables' = TableIds(data.tables)
            /\ selectedColumn' = DefaultSelectedColumn(data.tables, selectedColumn)
            /\ timers' = Append(timers, [delay |-> LoadFitDelay,
                                         tables |-> data.tables,
                                         expanded |-> expandedTables])
       ELSE UNCHANGED <<expandedTables, selectedColumn, timers>>
    /\ loading' = FALSE
    /\ lastOp' = [op |-> "load"]
    /\ UNCHANGED <<transform, isDragging, dragStart, transformStart, listeners,
                   rect, primaryDown, ops, zooms>>

\* fetchData, response not ok or fetch rejected
FetchFailure ==
    /\ loading
    /\ loading' = FALSE
    /\ lastOp' = [op |-> "loadFailed"]
    /\ UNCHANGED <<lineageData, expandedTables, selectedColumn, transform,
                   isDragging, dragStart, transformStart, listeners, timers, rect,
                   primaryDown, ops, zooms>>

\* onMouseDown on the svg
MouseDown(p, button) ==
    /\ SvgMounted
    /\ Inside(p, rect)
    /\ button = 0 => ops < MaxOps
    /\ LET d == handleMouseDown(transform,
                                [isDragging |-> isDragging, dragStart |-> dragStart,
                                 transformStart |-> transformStart], p, button)
       IN  /\ isDragging' = d.isDragging
           /\ dragStart' = d.dragStart
           /\ transformStart' = d.transformStart
           /\ listeners' = GlobalMouseEffect(d.isDragging)
    /\ primaryDown' = IF button = 0 THEN TRUE ELSE primaryDown
    /\ ops' = IF button = 0 THEN ops + 1 ELSE ops
    /\ lastOp' = [op |-> "press", p |-> p, button |-> button]
    /\ UNCHANGED <<loading, lineageData, expandedTables, selectedColumn, transform,
                   timers, rect, zooms>>

\* a pointer move anywhere in the document
MouseMove(p) ==
    /\ SvgMounted
    /\ transform' = IF Delivered(listeners, p, rect)
                    THEN handleMouseMove(transform, isDragging, dragStart,
                                         transformStart, p)
                    ELSE transform
    /\ lastOp' = [op |-> "move", p |-> p]
    /\ UNCHANGED <<loading, lineageData, expandedTables, selectedColumn, isDragging,
                   dragStart, transformStart, listeners, timers, rect, primaryDown, ops, zooms>>

\* a button release anywhere in the document: of the primary button once it
\* is held, of another button while a mouseup listener exists
MouseUp(p, button) ==
    /\ SvgMounted
    /\ IF button = 0 THEN primaryDown ELSE listeners > 0
    /\ isDragging' = IF Delivered(listeners, p, rect) THEN FALSE ELSE isDragging
    /\ listeners' = GlobalMouseEffect(isDragging')
    /\ primaryDown' = IF button = 0 THEN FALSE ELSE primaryDown
    /\ lastOp' = [op |-> "release", p |-> p, button |-> button]
    /\ UNCHANGED <<loading, lineageData, expandedTables, selectedColumn, transform,
                   dragStart, transformStart, timers, rect, ops, zooms>>

\* onWheel on the svg
Wheel(p, deltaY) ==
    /\ SvgMounted
    /\ Inside(p, rect)
    /\ ops < MaxOps
    /\ zooms < MaxZooms
    /\ transform' = handleWheel(transform, p, deltaY)
    /\ ops' = ops + 1
    /\ zooms' = zooms + 1
    /\ lastOp' = [op |-> "wheel", p |-> p, deltaY |-> deltaY,
                  from |-> transform.scale]
    /\ UNCHANGED <<loading, lineageData, expandedTables, selectedColumn, isDragging,
                   dragStart, transformStart, listeners, timers, rect, primaryDown>>

\* the zoom-in button, disabled at scale >= 3
ZoomInClick ==
    /\ SvgMounted
    /\ QLt(transform.scale, MaxScale)
    /\ ops < MaxOps
    /\ zooms < MaxZooms
    /\ transform' = zoomIn(transform, rect, SvgMounted)
    /\ ops' = ops + 1
    /\ zooms' = zooms + 1
    /\ lastOp' = [op |-> "zoomIn", from |-> transform.scale]
    /\ UNCHANGED <<loading, lineageData, expandedTables, selectedColumn, isDragging,
                   dragStart, transformStart, listeners, timers, rect, primaryDown>>

\* the zoom-out button, disabled at scale <= 0.1
ZoomOutClick ==
    /\ SvgMounted
    /\ QLt(MinScale, transform.scale)
    /\ ops < MaxOps
    /\ zooms < MaxZooms
    /\ transform' = zoomOut(transform, rect, SvgMounted)
    /\ ops' = ops + 1
    /\ zooms' = zooms + 1
    /\ lastOp' = [op |-> "zoomOut", from |-> transform.scale]
    /\ UNCHANGED <<loading, lineageData, expandedTables, selectedColumn, isDragging,
                   dragStart, transformStart, listeners, timers, rect, primaryDown>>

\* variant of ResetClick that also ends a drag in progress
ResetClickEndsDrag ==
    /\ SvgMounted
    /\ transform' = resetView
    /\ isDragging' = FALSE
    /\ listeners' = GlobalMouseEffect(FALSE)
    /\ lastOp' = [op |-> "reset"]
    /\ UNCHANGED <<loading, lineageData, expandedTables, selectedColumn,
                   dragStart, transformStart, timers, rect, primaryDown, ops, zooms>>

\* the Reset button
ResetClick ==
    /\ SvgMounted
    /\ transform' = resetView
    /\ lastOp' = [op |-> "reset"]
    /\ UNCHANGED <<loading, lineageData, expandedTables, selectedColumn, isDragging,
                   dragStart, transformStart, listeners, timers, rect, primaryDown, ops, zooms>>

\* the Fit to View button
FitClick ==
    /\ SvgMounted
    /\ transform' = fitToViewOnClick(transform, rect, SvgMounted)
    /\ lastOp' = [op |-> "fitClick",
                  threw |-> fitToViewOnClickThrows(rect, SvgMounted)]
    /\ UNCHANGED <<loading, lineageData, expandedTables, selectedColumn, isDragging,
                   dragStart, transformStart, listeners, timers, rect, primaryDown, ops, zooms>>

\* the expand button of a rendered table: the timer callback closes over the
\* fitToView of the render in which the click is handled
Toggle(i) ==
    /\ SvgMounted
    /\ lineageData.tables[i].position # NoPosition
    /\ ops < MaxOps
    /\ expandedTables' = ToggleExpanded(expandedTables, lineageData.tables[i].id)
    /\ timers' = Append(timers, [delay |-> ToggleFitDelay,
                                 tables |-> lineageData.tables,
                                 expanded |-> expandedTables])
    /\ ops' = ops + 1
    /\ lastOp' = LET id == lineageData.tables[i].id
                      twice == lastOp.op = "toggle" /\ lastOp.id = id
                  IN  [op |-> "toggle", id |-> id, twice |-> twice,
                       before |-> expandedTables,
                       prior |-> IF twice THEN lastOp.before ELSE expandedTables]
    /\ UNCHANGED <<loading, lineageData, selectedColumn, transform, isDragging,
                   dragStart, transformStart, listeners, rect, primaryDown, zooms>>

\* a click on the name of column j in the rows of expanded table i
SelectColumn(i, j) ==
    /\ SvgMounted
    /\ lineageData.tables[i].position # NoPosition
    /\ Includes(expandedTables, lineageData.tables[i].id)
    /\ selectedColumn' = lineageData.tables[i].columns[j]
    /\ lastOp' = [op |-> "select", column |-> lineageData.tables[i].columns[j]]
    /\ UNCHANGED <<loading, lineageData, expandedTables, transform, isDragging,
                   dragStart, transformStart, listeners, timers, rect, primaryDown,
                   ops, zooms>>

\* a pending setTimeout callback runs
TimerFires(i) ==
    /\ Due(timers, i)
    /\ transform' = fitToView(transform, timers[i].tables, timers[i].expanded, rect,
                              SvgMounted)
    /\ timers' = RemoveAt(timers, i)
    /\ lastOp' = [op |-> "fit", timer |-> timers[i], newest |-> i = Len(timers),
                   repeat |-> /\ lastOp.op = "fit"
                              /\ lastOp.timer.tables = timers[i].tables
                              /\ Range(lastOp.timer.expanded) = Range(timers[i].expanded)]
    /\ UNCHANGED <<loading, lineageData, expandedTables, selectedColumn, isDragging,
                   dragStart, transformStart, listeners, rect, primaryDown, ops, zooms>>

\* the layout gives the surface its on-screen size
LayoutSettles(v) ==
    /\ rect.width = 0 \/ rect.height = 0
    /\ v.width > 0 /\ v.height > 0
    /\ rect' = v
    /\ lastOp' = [op |-> "layout"]
    /\ UNCHANGED <<loading, lineageData, expandedTables, selectedColumn, transform,
                   isDragging, dragStart, transformStart, listeners, timers,
                   primaryDown, ops, zooms>>

Next ==
    \/ \E data \in Datasets : FetchSuccess(data)
    \/ FetchFailure
    \/ \E p \in Points, button \in Buttons : MouseDown(p, button)
    \/ \E p \in Points : MouseMove(p)
    \/ \E p \in Points, button \in Buttons : MouseUp(p, button)
    \/ \E p \in Points, deltaY \in WheelDeltas : Wheel(p, deltaY)
    \/ ZoomInClick
    \/ ZoomOutClick
    \/ ResetClick
    \/ FitClick
    \/ \E i \in 1..Len(lineageData.tables) : Toggle(i)
    \/ \E i \in 1..Len(timers) : TimerFires(i)
    \/ \E v \in Viewports : LayoutSettles(v)

Spec == Init /\ [][Next]_vars

----------------------------------------------------------------------------
(* The loaded view: the component once a snapshot is on screen, the load's  *)
(* fit has run and the view has been reset, on each surface size, with the  *)
(* rendered tables all expanded or all collapsed. Column clicks are taken   *)
(* here: selectedColumn is read by the render alone, no handler of the      *)
(* transform or of the drag reads or writes it.                             *)

\* the ids left in expandedTables once every rendered table is collapsed
RECURSIVE UnplacedIds(_)
UnplacedIds(tables) ==
    IF Len(tables) = 0 THEN <<>>
    ELSE IF Head(tables).position = NoPosition
    THEN <<Head(tables).id>> \o UnplacedIds(Tail(tables))
    ELSE UnplacedIds(Tail(tables))

InitView ==
    /\ loading = FALSE
    /\ lineageData \in ViewDatasets
    /\ expandedTables \in
           IF RenderThrows(lineageData)
           THEN {TableIds(lineageData.tables)}
           ELSE {TableIds(lineageData.tables), UnplacedIds(lineageData.tables)}
    /\ selectedColumn = IF Len(lineageData.tables) > 0
                        THEN DefaultSelectedColumn(lineageData.tables, "customer_id")
                        ELSE "customer_id"
    /\ transform = resetView
    /\ isDragging = FALSE
    /\ dragStart = <<0, 0>>
    /\ transformStart = [x |-> QInt(0), y |-> QInt(0)]
    /\ listeners = 0
    /\ timers = <<>>
    /\ rect \in ViewViewports
    /\ primaryDown = FALSE
    /\ lastOp = [op |-> "init"]
    /\ ops = 0
    /\ zooms = 0

NextView ==
    \/ \E i \in 1..Len(lineageData.tables) : Toggle(i)
    \/ \E i \in 1..Len(timers) : TimerFires(i)
    \/ \E i \in 1..Len(lineageData.tables) :
           \E j \in 1..Len(lineageData.tables[i].columns) : SelectColumn(i, j)
    \/ ResetClick
    \/ FitClick

SpecView == InitView /\ [][NextView]_vars

----------------------------------------------------------------------------
(* The loaded view under every handler at once: the wide snapshot on a      *)
(* sized surface, with the pointer, the wheel, the toolbar, the expand      *)
(* buttons and the column rows all in play.                                 *)

InitLoaded ==
    /\ InitView
    /\ lineageData = DataWide
    /\ rect = [width |-> 800, height |-> 600]

NextLoaded ==
    \/ \E p \in Points, button \in Buttons : MouseDown(p, button)
    \/ \E p \in Points : MouseMove(p)
    \/ \E p \in Points, button \in Buttons : MouseUp(p, button)
    \/ \E p \in Points, deltaY \in WheelDeltas : Wheel(p, deltaY)
    \/ ZoomInClick
    \/ ZoomOutClick
    \/ ResetClick
    \/ FitClick
    \/ \E i \in 1..Len(lineageData.tables) : Toggle(i)
    \/ \E i \in 1..Len(lineageData.tables) :
           \E j \in 1..Len(lineageData.tables[i].columns) : SelectColumn(i, j)
    \/ \E i \in 1..Len(timers) : TimerFires(i)

SpecLoaded == InitLoaded /\ [][NextLoaded]_vars

----------------------------------------------------------------------------
(* Properties *)

\* C1: in every reachable state the scale of the transform lies in
\* [0.1, 3.0], whatever sequence of wheel, zoom, fit, reset, drag and timer
\* events led there
C1_ScaleInRange ==
    QLe(MinScale, transform.scale) /\ QLe(transform.scale, MaxScale)

\* a wheel event whose unclamped product fell below 0.1 has been handled
C1_Witness ==
    /\ lastOp.op = "wheel"
    /\ lastOp.deltaY = 3000
    /\ transform.scale = MinScale

\* a deferred fit has run: the surface has a size and a table has a position
FitRan ==
    /\ lastOp.op = "fit"
    /\ SvgMounted
    /\ rect.width # 0 /\ rect.height # 0
    /\ ~NodeExtents(lastOp.timer.tables, lastOp.timer.expanded, 1, Infinite).inf

\* the screen box of every positioned table, with the height it has under
\* `expanded`, keeps the fit margin on all four sides of surface r
BoxesInsideMargin(tr, tables, expanded, r) ==
    \A i \in 1..Len(tables) :
        tables[i].position # NoPosition =>
            LET px == tables[i].position[1]
                py == tables[i].position[2]
                left == QAdd(QMul(QInt(px), tr.scale), tr.x)
                right == QAdd(QMul(QInt(px + NodeWidth), tr.scale), tr.x)
                top == QAdd(QMul(QInt(py), tr.scale), tr.y)
                bottom == QAdd(QMul(QInt(py + TableHeight(tables[i], expanded)),
                                    tr.scale), tr.y)
            IN  /\ QLe(QInt(FitPadding), left)
                /\ QLe(right, QInt(r.width - FitPadding))
                /\ QLe(QInt(FitPadding), top)
                /\ QLe(bottom, QInt(r.height - FitPadding))

C3_WheelKeepsAnchor ==
    [][lastOp'.op = "wheel" =>
          LET sx == QInt(lastOp'.p[1])
              sy == QInt(lastOp'.p[2])
              cx == QDiv(QSub(sx, transform.x), transform.scale)
              cy == QDiv(QSub(sy, transform.y), transform.scale)
          IN  /\ QAdd(QMul(cx, transform'.scale), transform'.x) = sx
              /\ QAdd(QMul(cy, transform'.scale), transform'.y) = sy]_vars

\* a wheel event whose new scale was clamped to 3.0 has moved the transform
C3_Witness ==
    /\ lastOp.op = "wheel"
    /\ lastOp.deltaY = -2000
    /\ transform.scale = MaxScale
    /\ transform.x # QInt(0)

\* C4: no reachable state has the primary button released and the
\* controller still Dragging, wherever the release happened
C4_ReleasedMeansIdle == ~primaryDown => ~isDragging

\* a drag that moved the content has been ended by a release off the surface
C4_Witness ==
    /\ lastOp.op = "release"
    /\ lastOp.button = 0
    /\ ~Inside(lastOp.p, rect)
    /\ ~isDragging
    /\ transform.x # transformStart.x

\* C5: when the re-fit scheduled by a toggle fires right after that toggle,
\* the transform becomes the fit computed from the expanded set as it is
\* after the toggle
C5_RefitUsesToggledSet ==
    [][(lastOp.op = "toggle" /\ lastOp'.op = "fit" /\ lastOp'.newest) =>
          transform' = fitToView(transform, lineageData.tables, expandedTables,
                                 rect, SvgMounted)]_vars

\* C6: when the fit deferred by the initial load fires right after the load,
\* the transform becomes the fit computed with every loaded table expanded
C6_LoadFitUsesExpandAll ==
    [][(lastOp.op = "load" /\ lastOp'.op = "fit") =>
          transform' = fitToView(transform, lineageData.tables,
                                 TableIds(lineageData.tables), rect,
                                 SvgMounted)]_vars

\* C7: at most one deferred re-fit is pending at any time
C7_AtMostOnePendingFit == Len(timers) <= 1

\* C8: a primary-button press received while Dragging leaves the recorded
\* press point and the recorded transform snapshot unchanged
C8_PressWhileDraggingIgnored ==
    [][(isDragging /\ lastOp'.op = "press") =>
          (dragStart' = dragStart /\ transformStart' = transformStart)]_vars

\* C9: a primary press records the press point and the transform's (x, y);
\* while Dragging a pointer move to p sets (x, y) to the recorded snapshot
\* plus (p - recorded press point) and keeps the scale; while Idle a pointer
\* move changes nothing
C9_DragTranslates ==
    [][/\ (lastOp'.op = "press" /\ lastOp'.button = 0) =>
              /\ dragStart' = lastOp'.p
              /\ transformStart' = [x |-> transform.x, y |-> transform.y]
       /\ lastOp'.op = "move" =>
              IF isDragging
              THEN transform' =
                       [x |-> QAdd(transformStart.x,
                                   QInt(lastOp'.p[1] - dragStart[1])),
                        y |-> QAdd(transformStart.y,
                                   QInt(lastOp'.p[2] - dragStart[2])),
                        scale |-> transform.scale]
              ELSE transform' = transform]_vars

\* a pointer move away from the press point during a drag has displaced a
\* transform whose scale is not 1
C9_Witness ==
    /\ lastOp.op = "move"
    /\ isDragging
    /\ lastOp.p # dragStart
    /\ transform.scale # QInt(1)
    /\ transform.x = QAdd(transformStart.x, QInt(lastOp.p[1] - dragStart[1]))

\* C10: a fit that runs right after a fit over the same tables, the same
\* expanded set and the same surface leaves the transform as the first fit
\* set it
C10_FitIdempotent ==
    [][(lastOp'.op = "fit" /\ lastOp'.repeat) => transform' = transform]_vars

\* two fits over the same tables and expanded set have run back to back on
\* a surface with a size
C10_Witness ==
    /\ FitRan
    /\ lastOp.repeat

\* C11: toggling a table and then toggling the same table again leaves
\* expandedTables with the members it had before the first toggle, whether
\* the table was expanded or collapsed to begin with
C11_ToggleTwiceRestores ==
    (lastOp.op = "toggle" /\ lastOp.twice) =>
        Range(expandedTables) = Range(lastOp.prior)

\* a collapsed table has been expanded and collapsed again while another id
\* stayed in the array
C11_Witness ==
    /\ lastOp.op = "toggle"
    /\ lastOp.twice
    /\ ~Includes(lastOp.prior, lastOp.id)
    /\ Len(lastOp.before) > 1

\* the scale a wheel event has to produce from scale `from`
WheelProduct(from, deltaY) == QMul(from, MathExp(deltaY))

WheelClamped(from, deltaY, to) ==
    /\ QLt(MaxScale, WheelProduct(from, deltaY)) => to = MaxScale
    /\ QLt(WheelProduct(from, deltaY), MinScale) => to = MinScale
    /\ (/\ QLe(MinScale, WheelProduct(from, deltaY))
        /\ QLe(WheelProduct(from, deltaY), MaxScale))
           => to = WheelProduct(from, deltaY)

\* C12 as stated: a wheel event sets the scale to
\* clamp(scale * exp(-deltaY / 1000), 0.1, 3.0), and deltaY = -1000 at scale
\* 1.0 gives 3.0
C12_WheelClampsWithExample ==
    [][lastOp'.op = "wheel" =>
          /\ WheelClamped(transform.scale, lastOp'.deltaY, transform'.scale)
          /\ (lastOp'.deltaY = -1000 /\ transform.scale = QInt(1))
                 => transform'.scale = MaxScale]_vars

\* C12 amended: a wheel event sets the scale to
\* clamp(scale * exp(-deltaY / 1000), 0.1, 3.0): exactly 3.0 when the product
\* exceeds 3.0, exactly 0.1 when it is below 0.1, the product itself otherwise
C12_WheelClamps ==
    [][lastOp'.op = "wheel" =>
          WheelClamped(transform.scale, lastOp'.deltaY, transform'.scale)]_vars

\* a wheel event on a fitted view had a product above 3.0 and left the scale
\* at 3.0
C12_Witness ==
    /\ lastOp.op = "wheel"
    /\ lastOp.from # QInt(1)
    /\ QLt(MaxScale, WheelProduct(lastOp.from, lastOp.deltaY))
    /\ transform.scale = MaxScale

\* C13: a fit on a surface whose width or height is zero, from a timer or
\* from the button, changes neither the transform nor expandedTables nor the
\* drag state, and raises nothing
C13_ZeroViewportFitIsNoOp ==
    [][(/\ lastOp'.op \in {"fit", "fitClick"}
        /\ (rect.width = 0 \/ rect.height = 0))
          => /\ transform' = transform
             /\ expandedTables' = expandedTables
             /\ isDragging' = isDragging
             /\ dragStart' = dragStart
             /\ transformStart' = transformStart
             /\ lastOp'.op = "fitClick" => ~lastOp'.threw]_vars

\* the re-fit of a toggle ran over positioned tables on a surface of height
\* 600 and width zero
C13_Witness ==
    /\ lastOp.op = "fit"
    /\ rect.width = 0
    /\ rect.height # 0
    /\ SvgMounted
    /\ ~NodeExtents(lastOp.timer.tables, lastOp.timer.expanded, 1, Infinite).inf

\* clamp(min(availableWidth / contentWidth, availableHeight / contentHeight),
\* 0.15, 0.9) for the tables and expanded ids of a fit on surface r
ClampedFitScale(tables, expanded, r) ==
    LET e == NodeExtents(tables, expanded, 1, Infinite)
        scaleX == Q(r.width - 2 * FitPadding, e.maxX - e.minX)
        scaleY == Q(r.height - 2 * FitPadding, e.maxY - e.minY)
        least == IF QLe(scaleX, scaleY) THEN scaleX ELSE scaleY
    IN  IF QLt(least, Q(15, 100)) THEN Q(15, 100)
        ELSE IF QLt(Q(9, 10), least) THEN Q(9, 10)
        ELSE least

\* C14: whenever a fit changes the transform, the new scale is
\* clamp(min(availableWidth / contentWidth, availableHeight / contentHeight),
\* 0.15, 0.9) and lies in [0.15, 0.9], also on a surface narrower than twice
\* the fit margin
C14_FitScaleClamped ==
    [][(lastOp'.op = "fit" /\ transform' # transform) =>
          /\ transform'.scale = ClampedFitScale(lastOp'.timer.tables,
                                                lastOp'.timer.expanded, rect)
          /\ QLe(Q(15, 100), transform'.scale)
          /\ QLe(transform'.scale, Q(9, 10))]_vars

\* a fit ran on the surface 100 wide, whose available width is negative, and
\* set the scale to 0.15
C14_Witness ==
    /\ FitRan
    /\ rect.width < 2 * FitPadding
    /\ transform.scale = Q(15, 100)
    /\ transform.x # QInt(0)

\* the transform steps 3 to 6 of the fit give for a content box with the
\* given origin and size on surface r
FitOfBox(minX, minY, contentWidth, contentHeight, r) ==
    FitTransform([minX |-> minX, minY |-> minY,
                  maxX |-> minX + contentWidth, maxY |-> minY + contentHeight], r)

\* C15 as stated: a fit that sets the transform derives it from the width,
\* height, minX and minY of the bounds getContentBounds returns for the same
\* tables and expanded ids, content-space padding included
C15_FitUsesContentBounds ==
    FitRan =>
        LET b == getContentBounds(lastOp.timer.tables, lastOp.timer.expanded)
        IN  transform = FitOfBox(b.minX, b.minY, b.width, b.height, rect)

\* C15 amended: a fit that sets the transform derives it from the bounds of
\* getContentBounds for the same tables and expanded ids with the
\* content-space padding taken off again: width and height less twice the
\* padding, minX and minY plus the padding
C15_FitUsesUnpaddedBounds ==
    FitRan =>
        LET b == getContentBounds(lastOp.timer.tables, lastOp.timer.expanded)
        IN  transform = FitOfBox(b.minX + BoundsPadding, b.minY + BoundsPadding,
                                 b.width - 2 * BoundsPadding,
                                 b.height - 2 * BoundsPadding, rect)

\* a fit ran over a table that is expanded beyond its collapsed height, with
\* a scale clamped at neither end
C15_Witness ==
    /\ FitRan
    /\ \E i \in 1..Len(lastOp.timer.tables) :
           /\ lastOp.timer.tables[i].position # NoPosition
           /\ TableHeight(lastOp.timer.tables[i], lastOp.timer.expanded)
                  > MinExpandedHeight
    /\ QLt(Q(15, 100), transform.scale)
    /\ QLt(transform.scale, Q(9, 10))
    /\ rect.width = 800

\* C16: whenever no table of the snapshot has a position, the list being
\* empty or not, getContentBounds returns the default bounds of width 800
\* and height 600
C16_DefaultBoundsWithoutPositions ==
    (\A i \in 1..Len(lineageData.tables) :
        lineageData.tables[i].position = NoPosition)
        => getContentBounds(lineageData.tables, expandedTables) = DefaultBounds

\* the connections layer of the current render
ConnectionsView == RenderConnections(lineageData, selectedColumn)

KnownId(id) == \E k \in 1..Len(lineageData.tables) : lineageData.tables[k].id = id

PlacedId(id) ==
    \E k \in 1..Len(lineageData.tables) :
        lineageData.tables[k].id = id /\ lineageData.tables[k].position # NoPosition

\* C17: an edge whose from.table or to.table matches no table id renders as
\* nothing (no path, no marker) and raises nothing, and every edge between
\* two placed tables is still routed, whether it comes before or after
C17_UnknownEdgeSkipped ==
    \A i \in 1..Len(lineageData.connections) :
        LET conn == lineageData.connections[i]
        IN  /\ (~KnownId(conn.from.table) \/ ~KnownId(conn.to.table))
                   => ConnectionsView[i] = [kind |-> "null"]
            /\ (PlacedId(conn.from.table) /\ PlacedId(conn.to.table))
                   => ConnectionsView[i].kind = "g"

\* a snapshot is on screen in which skipped edges come before and between
\* routed ones
C17_Witness ==
    /\ SvgMounted
    /\ \E i, j, k \in 1..Len(lineageData.connections) :
           /\ i < j /\ j < k
           /\ ~KnownId(lineageData.connections[i].from.table)
           /\ ~KnownId(lineageData.connections[j].to.table)
           /\ ConnectionsView[k].kind = "g"
           /\ ConnectionsView[k].isHighlighted

\* the tables of the snapshot that have a position, in order
RECURSIVE Placed(_)
Placed(tables) ==
    IF Len(tables) = 0 THEN <<>>
    ELSE IF Head(tables).position = NoPosition THEN Placed(Tail(tables))
    ELSE <<Head(tables)>> \o Placed(Tail(tables))

\* C18: a table without a position adds nothing to the bounds, renders as
\* nothing, and rendering the edges of a snapshot in which it is an edge
\* endpoint raises nothing
C18_UnplacedNodeHarmless ==
    ~loading =>
        /\ BoundsFold(lineageData.tables, expandedTables, 1, Infinite)
               = BoundsFold(Placed(lineageData.tables), expandedTables, 1, Infinite)
        /\ \A i \in 1..Len(lineageData.tables) :
               lineageData.tables[i].position = NoPosition
                   => RenderTables(lineageData, expandedTables, selectedColumn)[i]
                          = [kind |-> "null"]
        /\ \A i \in 1..Len(lineageData.connections) :
               ConnectionsView[i].kind # "TypeError"

\* the tables layer of the current render
TablesView == RenderTables(lineageData, expandedTables, selectedColumn)

\* some edge has from = (id, column) or to = (id, column)
EdgeEnd(id, column) ==
    <<id, column>> \in
        {<<c.from.table, c.from.column>> : c \in Range(lineageData.connections)}
        \cup {<<c.to.table, c.to.column>> : c \in Range(lineageData.connections)}

\* the (table id, column) pairs asked about: every column name of the
\* snapshot on every table id, on an id no table has, and the selected column
PairIds == Range(TableIds(lineageData.tables)) \cup {"missing"}

PairColumns ==
    UNION {Range(lineageData.tables[i].columns) : i \in 1..Len(lineageData.tables)}
        \cup {selectedColumn}

\* C19: isColumnHighlighted(id, column) is true exactly when column is the
\* selected column and some edge has from or to equal to (id, column), for
\* the rows on screen and for every other pair
C19_ColumnHighlightedIffSelectedEnd ==
    /\ \A id \in PairIds, column \in PairColumns :
           isColumnHighlighted(lineageData.connections, selectedColumn, id, column)
               <=> (column = selectedColumn /\ EdgeEnd(id, column))
    /\ \A i \in 1..Len(TablesView) :
           TablesView[i].kind = "g" =>
               \A j \in 1..Len(TablesView[i].rows) :
                   TablesView[i].rows[j].isHighlighted
                       <=> /\ TablesView[i].rows[j].column = selectedColumn
                           /\ EdgeEnd(TablesView[i].id, TablesView[i].rows[j].column)

\* after a column click: a row that is only the to end of an edge is
\* highlighted, a row that is an edge end but not selected is not, and the
\* selected name on a table where it is no edge end is not
C19_Witness ==
    /\ lastOp.op = "select"
    /\ SvgMounted
    /\ \E i \in 1..Len(TablesView) :
           /\ TablesView[i].kind = "g"
           /\ \E j \in 1..Len(TablesView[i].rows) :
                  /\ TablesView[i].rows[j].isHighlighted
                  /\ \A c \in Range(lineageData.connections) :
                         <<c.from.table, c.from.column>>
                             # <<TablesView[i].id, TablesView[i].rows[j].column>>
    /\ \E i \in 1..Len(TablesView) :
           /\ TablesView[i].kind = "g"
           /\ \E j \in 1..Len(TablesView[i].rows) :
                  /\ ~TablesView[i].rows[j].isHighlighted
                  /\ EdgeEnd(TablesView[i].id, TablesView[i].rows[j].column)
    /\ \E id \in PairIds :
           /\ ~EdgeEnd(id, selectedColumn)
           /\ ~isColumnHighlighted(lineageData.connections, selectedColumn, id,
                                   selectedColumn)

\* C20: an edge that is drawn is highlighted exactly when its from.column
\* or its to.column is the selected column, so after a click on a column
\* that is neither, the edge is not highlighted
C20_EdgeHighlightedIffEndSelected ==
    \A i \in 1..Len(lineageData.connections) :
        ConnectionsView[i].kind = "g" =>
            (ConnectionsView[i].isHighlighted
                <=> selectedColumn \in {lineageData.connections[i].from.column,
                                        lineageData.connections[i].to.column})

\* after a click on col_b the drawn edge col_a -> col_a is not highlighted
\* and the drawn edge col_b -> col_c is
C20_Witness ==
    /\ lastOp.op = "select"
    /\ lastOp.column = "col_b"
    /\ \E i, k \in 1..Len(lineageData.connections) :
           /\ lineageData.connections[i] = Conn12
           /\ ConnectionsView[i].kind = "g"
           /\ ~ConnectionsView[i].isHighlighted
           /\ lineageData.connections[k] = ConnBC
           /\ ConnectionsView[k].kind = "g"
           /\ ConnectionsView[k].isHighlighted

\* C21: the Reset button sets the transform to {x: 0, y: 0, scale: 1} from
\* every state, Dragging or not, timers pending or not, and changes nothing
\* else
C21_ResetSetsIdentityOnly ==
    [][lastOp'.op = "reset" =>
          /\ transform' = [x |-> QInt(0), y |-> QInt(0), scale |-> QInt(1)]
          /\ UNCHANGED <<loading, lineageData, expandedTables, selectedColumn,
                         isDragging, dragStart, transformStart, listeners, timers,
                         rect>>]_vars

\* Reset was pressed during a drag that began on a zoomed view, with a
\* deferred fit still pending
C21_Witness ==
    /\ lastOp.op = "reset"
    /\ isDragging
    /\ Len(timers) > 0
    /\ transformStart.x # QInt(0)
    /\ transform = [x |-> QInt(0), y |-> QInt(0), scale |-> QInt(1)]

\* the content point under the surface point (sx, sy) before the step is
\* under it after the step
AnchorKept(sx, sy) ==
    LET cx == QDiv(QSub(sx, transform.x), transform.scale)
        cy == QDiv(QSub(sy, transform.y), transform.scale)
    IN  /\ QAdd(QMul(cx, transform'.scale), transform'.x) = sx
        /\ QAdd(QMul(cy, transform'.scale), transform'.y) = sy

\* C22: a zoom-in click sets the scale to min(3.0, scale * 1.3), a zoom-out
\* click to max(0.1, scale / 1.3), and either keeps the content point at the
\* centre (width / 2, height / 2) of the surface where it is; without a
\* surface the handlers change nothing
C22_ZoomButtonsAnchorCentre ==
    [][/\ lastOp'.op = "zoomIn" =>
              /\ transform'.scale =
                     (IF QLt(QInt(3), QMul(transform.scale, Q(13, 10)))
                      THEN QInt(3) ELSE QMul(transform.scale, Q(13, 10)))
              /\ AnchorKept(Q(rect.width, 2), Q(rect.height, 2))
       /\ lastOp'.op = "zoomOut" =>
              /\ transform'.scale =
                     (IF QLt(QDiv(transform.scale, Q(13, 10)), Q(1, 10))
                      THEN Q(1, 10) ELSE QDiv(transform.scale, Q(13, 10)))
              /\ AnchorKept(Q(rect.width, 2), Q(rect.height, 2))
       /\ lastOp'.op \in {"zoomIn", "zoomOut"} =>
              /\ zoomIn(transform, rect, FALSE) = transform
              /\ zoomOut(transform, rect, FALSE) = transform]_vars

\* a zoom-in click on a view zoomed to above 3.0 / 1.3 left the scale at 3.0
\* on the surface 800 wide
C22_Witness ==
    /\ lastOp.op = "zoomIn"
    /\ QLt(QInt(3), QMul(lastOp.from, Q(13, 10)))
    /\ transform.scale = QInt(3)
    /\ rect.width = 800
    /\ transform.x # QInt(0)

\* the gaps between the content box of the last fit, as the transform maps
\* it, and the four sides of the surface
FitGaps ==
    LET e == NodeExtents(lastOp.timer.tables, lastOp.timer.expanded, 1, Infinite)
    IN  [left |-> QAdd(QMul(QInt(e.minX), transform.scale), transform.x),
         top |-> QAdd(QMul(QInt(e.minY), transform.scale), transform.y),
         right |-> QSub(QInt(rect.width),
                        QAdd(QMul(QInt(e.maxX), transform.scale), transform.x)),
         bottom |-> QSub(QInt(rect.height),
                         QAdd(QMul(QInt(e.maxY), transform.scale), transform.y)),
         centredX |-> QDiv(QSub(QInt(rect.width),
                                QMul(QInt(e.maxX - e.minX), transform.scale)),
                           QInt(2)),
         centredY |-> QDiv(QSub(QInt(rect.height),
                                QMul(QInt(e.maxY - e.minY), transform.scale)),
                           QInt(2))]

\* C23: after a fit that set the transform the top-left corner of the content
\* box is at or beyond the fit margin on both axes, and on an axis where
\* centring already leaves the margin the box is centred: the gap before it
\* equals the gap after it
C23_FitTopLeftBeyondMargin ==
    FitRan =>
        /\ QLe(QInt(60), FitGaps.left)
        /\ QLe(QInt(60), FitGaps.top)
        /\ QLe(QInt(60), FitGaps.centredX) => FitGaps.left = FitGaps.right
        /\ QLe(QInt(60), FitGaps.centredY) => FitGaps.top = FitGaps.bottom

\* a fit ran whose horizontal offset was raised to the margin while the box
\* is centred vertically
C23_Witness ==
    /\ FitRan
    /\ FitGaps.left = QInt(60)
    /\ FitGaps.left # FitGaps.right
    /\ FitGaps.top = FitGaps.bottom
    /\ QLt(QInt(60), FitGaps.top)

Least(S) == CHOOSE x \in S : \A y \in S : x <= y

Greatest(S) == CHOOSE x \in S : \A y \in S : x >= y

\* the box of a placed table: 240 wide, 80 high collapsed,
\* max(120, 60 + 20 * columnCount) high expanded
BoxOf(table, expanded) ==
    LET h == IF table.id \in Range(expanded)
             THEN (IF 60 + 20 * Len(table.columns) > 120
                   THEN 60 + 20 * Len(table.columns) ELSE 120)
             ELSE 80
    IN  [left |-> table.position[1], top |-> table.position[2],
         right |-> table.position[1] + 240, bottom |-> table.position[2] + h]

\* C24: for a list with a placed table getContentBounds returns the union of
\* the placed tables' boxes enlarged by 100 on every side, width and height
\* being those of the enlarged box, and tables without a position make no
\* difference
C24_BoundsArePaddedUnion ==
    LET placed == Range(Placed(lineageData.tables))
        boxes == {BoxOf(t, expandedTables) : t \in placed}
        b == getContentBounds(lineageData.tables, expandedTables)
    IN  placed # {} =>
            /\ ~b.inf
            /\ b.minX = Least({x.left : x \in boxes}) - 100
            /\ b.minY = Least({x.top : x \in boxes}) - 100
            /\ b.maxX = Greatest({x.right : x \in boxes}) + 100
            /\ b.maxY = Greatest({x.bottom : x \in boxes}) + 100
            /\ b.width = b.maxX - b.minX
            /\ b.height = b.maxY - b.minY
            /\ b = getContentBounds(Placed(lineageData.tables), expandedTables)

\* after a toggle the snapshot holds a table without a position, a collapsed
\* table and an expanded one
C24_Witness ==
    /\ lastOp.op = "toggle"
    /\ Len(Placed(lineageData.tables)) < Len(lineageData.tables)
    /\ \E t, u \in Range(Placed(lineageData.tables)) :
           /\ Includes(expandedTables, t.id)
           /\ ~Includes(expandedTables, u.id)
    /\ getContentBounds(lineageData.tables, expandedTables).height = 320

\* clamp(d * 0.4, 80, 200)
ControlOffset(d) ==
    IF 4 * d < 800 THEN QInt(80)
    ELSE IF 4 * d > 2000 THEN QInt(200)
    ELSE Q(4 * d, 10)

\* the table a drawn edge resolves an id to
TableOf(id) == lineageData.tables[Find(lineageData.tables, id, 1)]

\* C25: the path of every drawn edge starts at (from.x + 240, from.y + 40),
\* ends at (to.x, to.y + 40) and has its control points at start.x + o and
\* end.x - o, level with start and end, where
\* o = clamp(|end.x - start.x| * 0.4, 80, 200); expanding or collapsing a
\* table does not enter into it
C25_PathAnchorsAndControls ==
    \A i \in 1..Len(lineageData.connections) :
        ConnectionsView[i].kind = "g" =>
            LET from == TableOf(lineageData.connections[i].from.table).position
                to == TableOf(lineageData.connections[i].to.table).position
                sx == from[1] + 240
                o == ControlOffset(IF to[1] >= sx THEN to[1] - sx ELSE sx - to[1])
            IN  ConnectionsView[i].d =
                    <<QInt(sx), QInt(from[2] + 40),
                      QAdd(QInt(sx), o), QInt(from[2] + 40),
                      QSub(QInt(to[1]), o), QInt(to[2] + 40),
                      QInt(to[1]), QInt(to[2] + 40)>>

\* after a toggle, with a collapsed and an expanded table on screen, one
\* drawn edge has its control offset at the floor 80 and another has the
\* offset 160.4
C25_Witness ==
    /\ lastOp.op = "toggle"
    /\ \E t, u \in Range(Placed(lineageData.tables)) :
           Includes(expandedTables, t.id) /\ ~Includes(expandedTables, u.id)
    /\ \E i, j \in 1..Len(lineageData.connections) :
           /\ ConnectionsView[i].kind = "g"
           /\ ConnectionsView[i].d[3] = QAdd(ConnectionsView[i].d[1], QInt(80))
           /\ ConnectionsView[j].kind = "g"
           /\ ConnectionsView[j].d[3] = QAdd(ConnectionsView[j].d[1], Q(802, 5))

\* C26 as stated: after a successful load of a non-empty tables array the
\* first table has a first column and it is the selected column
C26_LoadSelectsFirstColumn ==
    (lastOp.op = "load" /\ Len(lineageData.tables) > 0) =>
        /\ Len(lineageData.tables[1].columns) > 0
        /\ selectedColumn = lineageData.tables[1].columns[1]

\* C26 amended: after a successful load of a non-empty tables array whose
\* first table has a column, that column is the selected column; when the
\* first table has no column the selection is still the one the component
\* was mounted with
C26_LoadSelectsFirstColumnIfAny ==
    (lastOp.op = "load" /\ Len(lineageData.tables) > 0) =>
        IF Len(lineageData.tables[1].columns) > 0
        THEN selectedColumn = lineageData.tables[1].columns[1]
        ELSE selectedColumn = "customer_id"

\* a load of two tables selected col_a, the first of the first table's
\* columns
C26_Witness ==
    /\ lastOp.op = "load"
    /\ Len(lineageData.tables) > 1
    /\ Len(lineageData.tables[1].columns) > 1
    /\ selectedColumn = lineageData.tables[1].columns[1]
    /\ selectedColumn # "customer_id"

ViewOps == {"wheel", "zoomIn", "zoomOut", "reset", "fitClick", "fit"}

\* C28: a wheel event, zoom in, zoom out, reset and a fit (by the button or
\* by a timer) leave isDragging, dragStart, transformStart, expandedTables,
\* selectedColumn and lineageData as they were; a column click and an
\* expand/collapse click leave lineageData as it was
C28_ViewOpsChangeTransformOnly ==
    [][/\ lastOp'.op \in ViewOps =>
            UNCHANGED <<isDragging, dragStart, transformStart, listeners,
                        expandedTables, selectedColumn, lineageData>>
       /\ lastOp'.op \in {"select", "toggle"} => UNCHANGED lineageData]_vars

\* a wheel event in the middle of a drag, after a column of an expanded
\* table was selected, has changed the transform
C28_Witness ==
    /\ lastOp.op = "wheel"
    /\ isDragging
    /\ Len(expandedTables) > 0
    /\ selectedColumn = "col_b"
    /\ transform.scale # lastOp.from

\* C29: a wheel zoom made during a drag is not undone by the drag: when the
\* next mousemove arrives with the pointer where the wheel event had it,
\* the x and y of the transform stay the ones the wheel produced
C29_DragKeepsWheelTransform ==
    [][(/\ lastOp.op = "wheel"
        /\ isDragging
        /\ lastOp'.op = "move"
        /\ lastOp'.p = lastOp.p)
           => (transform'.x = transform.x /\ transform'.y = transform.y)]_vars

\* C30: every highlighted column row on screen is backed by a drawn
\* highlighted edge that has the row's (table id, column) as its from or
\* its to
C30_HighlightedRowHasDrawnEdge ==
    SvgMounted =>
        \A i \in 1..Len(TablesView) :
            TablesView[i].kind = "g" =>
                \A j \in 1..Len(TablesView[i].rows) :
                    TablesView[i].rows[j].isHighlighted =>
                        \E k \in 1..Len(lineageData.connections) :
                            LET conn == lineageData.connections[k]
                                end == [table |-> TablesView[i].id,
                                        column |-> TablesView[i].rows[j].column]
                            IN  /\ ConnectionsView[k].kind = "g"
                                /\ ConnectionsView[k].isHighlighted
                                /\ (conn.from = end \/ conn.to = end)

====
